---- MODULE Spec2Model ----
(***************************************************************************)
(* A model of src/client.py: the user side of the blind issuance of a      *)
(* Pointcheval-Sanders multi-message signature.                            *)
(*                                                                         *)
(* Groups.  G1, G2 and GT are cyclic groups of prime order o.  An element  *)
(* is represented by its discrete logarithm to the base g1 (resp. g2,      *)
(* e(g1, g2)), so that the group law (written + in the code) is addition   *)
(* modulo o, the scalar multiplication (written * in the code) is          *)
(* multiplication modulo o and the pairing multiplies the logarithms.      *)
(* Scalars are petlib Bn values: unbounded integers, which the code        *)
(* combines with the plain integer operators of Bn.                        *)
(***************************************************************************)
EXTENDS Integers, Sequences, FiniteSets, TLC

VARIABLES
    idp_pk,     \* Client.__idp_pk, the public key given to the constructor
    t,          \* Client.__t: None or <<scalar>>
    args,       \* the last call on the client: its name and its arguments
    ret,        \* what the last call returned or raised
    local,      \* the locals of the last call that its result does not carry
    sig_prime,  \* the blinded signature the issuer has sent back, if any
    overtaken   \* history: request_id was called after the issuer last signed

vars == <<idp_pk, t, args, ret, local, sig_prime, overtaken>>

----------------------------------------------------------------------------
(* Bounds and sets of inputs *)

\* BpGroupHelper.o, the order of the groups (a small prime here)
o == 3

Scalars == 0 .. (o - 1)

\* self.__t = None
None == <<>>

\* raw attribute values (byte strings) and the context data
RawValues == {"alice", "bob"}
Data == {0, 1}

\* the "" that request_id puts at a hidden position (a str, never a bytes value)
Placeholder == ""

\* secret exponents of the issuer's key pairs this model runs with: x, y_1, y_2
SecretKeys == {[x |-> 2, y |-> <<1, 2>>], [x |-> 1, y |-> <<2, 2>>]}

\* PubKey of a secret key: g1, g2, X = g2^x, Yg1[i] = g1^y_i, Yg2[i] = g2^y_i
PubKey(sk) ==
    [g1 |-> 1, g2 |-> 1, X |-> sk.x, Yg1 |-> sk.y, Yg2 |-> sk.y]

PubKeys == {PubKey(sk) : sk \in SecretKeys}

\* the number of attribute slots of these keys
NumSlots == Len(PubKey(CHOOSE sk \in SecretKeys : TRUE).Yg1)

\* the longest attribute vector a call is given: longer than the keys' arrays
MaxAttrs == 3

\* attribute vectors: sequences of pairs <<raw value, hidden flag>>
AttrVectors(n) ==
    UNION {[1 .. len -> RawValues \X BOOLEAN] : len \in 0 .. n}

----------------------------------------------------------------------------
(* The group engine and the hashes *)

\* G1Elem + G1Elem, G2Elem + G2Elem
Add(P, Q) == (P + Q) % o

\* G1Elem - G1Elem
Sub(P, Q) == (P - Q) % o

\* G1Elem * Bn, G2Elem * Bn: the scalar may be any integer
Mul(P, k) == (P * k) % o

\* BpGroupHelper.e
e(P, Q) == (P * Q) % o

\* Bn.from_binary(sha256(raw).digest()): the digest read as a big-endian
\* integer; it is a 256-bit number and is not reduced, so it may exceed o
Sha256Bn(raw) ==
    CASE raw = "alice" -> 4
      [] raw = "bob" -> 2
      [] OTHER -> 5

\* helper.to_challenge([C.export(), V.export(), data]): a hash of the three
\* byte strings in this order, reduced to a scalar of the field.  The order of
\* the elements matters, and for the same first two elements different data
\* give different challenges.
to_challenge(elements) ==
    (elements[1] * elements[1] + 2 * elements[2] + elements[3] + 1) % o

----------------------------------------------------------------------------
(* Client.request_id and its helpers *)

\* the positions (1-based) of the hidden attributes, in order
HiddenPositions(attributes) ==
    SelectSeq([i \in 1 .. Len(attributes) |-> i], LAMBDA i : attributes[i][2])

NumHidden(attributes) == Len(HiddenPositions(attributes))

\* hash_hidden_attributes that reduces the digests into the field
hash_hidden_attributes_reduced(attributes) ==
    LET hp == HiddenPositions(attributes)
    IN  [j \in 1 .. Len(hp) |-> Sha256Bn(attributes[hp[j]][1]) % o]

\* Client.__hash_hidden_attributes
hash_hidden_attributes(attributes) ==
    LET hp == HiddenPositions(attributes)
    IN  [j \in 1 .. Len(hp) |-> Sha256Bn(attributes[hp[j]][1])]

\* CommitmentLoop that indexes Yg1 by j, the number of the hidden attribute
RECURSIVE CommitmentLoopByJ(_, _, _, _, _, _)
CommitmentLoopByJ(pk, hashed_attributes, attributes, i, j, C) ==
    IF i > Len(attributes) THEN [kind |-> "ok", C |-> C]
    ELSE IF attributes[i][2]
         THEN IF i > Len(pk.Yg1)
              THEN [kind |-> "IndexError", where |-> "create_commitment"]
              ELSE CommitmentLoopByJ(pk, hashed_attributes, attributes, i + 1, j + 1,
                                     Add(C, Mul(pk.Yg1[j], hashed_attributes[j])))
         ELSE CommitmentLoopByJ(pk, hashed_attributes, attributes, i + 1, j, C)

\* the loop of Client.__create_commitment from position i (1-based) on, with j
\* the next hashed attribute (1-based) and C the accumulator
RECURSIVE CommitmentLoop(_, _, _, _, _, _)
CommitmentLoop(pk, hashed_attributes, attributes, i, j, C) ==
    IF i > Len(attributes) THEN [kind |-> "ok", C |-> C]
    ELSE IF attributes[i][2]
         THEN IF i > Len(pk.Yg1)
              THEN [kind |-> "IndexError", where |-> "create_commitment"]
              ELSE CommitmentLoop(pk, hashed_attributes, attributes, i + 1, j + 1,
                                  Add(C, Mul(pk.Yg1[i], hashed_attributes[j])))
         ELSE CommitmentLoop(pk, hashed_attributes, attributes, i + 1, j, C)

\* Client.__create_commitment, for the t that o.random() returned
create_commitment(pk, tn, hashed_attributes, attributes) ==
    CommitmentLoop(pk, hashed_attributes, attributes, 1, 1, Mul(pk.g1, tn))

\* the first loop of Client.create_zkp from position i (1-based) on; rnd is the
\* sequence of values o.random() returns, randomness the list built so far.
\* The code reads randomness[i + 1] for its 0-based i, which is the element
\* number i + 1 of the 1-based sequence for the 1-based position i.
RECURSIVE ZkpLoop(_, _, _, _, _, _)
ZkpLoop(pk, attributes, rnd, i, randomness, V) ==
    IF i > Len(attributes) THEN [kind |-> "ok", V |-> V, randomness |-> randomness]
    ELSE IF attributes[i][2]
         THEN LET appended == Append(randomness, rnd[Len(randomness) + 1])
              IN  IF i > Len(pk.Yg1) \/ i + 1 > Len(appended)
                  THEN [kind |-> "IndexError", where |-> "create_zkp"]
                  ELSE ZkpLoop(pk, attributes, rnd, i + 1, appended,
                               Add(V, Mul(pk.Yg1[i], appended[i + 1])))
         ELSE ZkpLoop(pk, attributes, rnd, i + 1, randomness, V)

\* Responses that pairs every hidden attribute with the random of t
ResponsesFirstRandom(randomness, tn, hashed_attributes, c) ==
    [k \in 1 .. 1 + Len(hashed_attributes) |->
        IF k = 1 THEN randomness[1] - tn * c
        ELSE randomness[1] - hashed_attributes[k - 1] * c]

\* the responses of Client.create_zkp: plain Bn arithmetic
Responses(randomness, tn, hashed_attributes, c) ==
    [k \in 1 .. 1 + Len(hashed_attributes) |->
        IF k = 1 THEN randomness[1] - tn * c
        ELSE randomness[k] - hashed_attributes[k - 1] * c]

\* create_zkp that hashes V before C
create_zkp_V_first(pk, tn, attributes, hashed_attributes, C, data, rnd) ==
    LET loop == ZkpLoop(pk, attributes, rnd, 1, <<rnd[1]>>, Mul(pk.g1, rnd[1]))
    IN  IF loop.kind # "ok" THEN loop
        ELSE LET c == to_challenge(<<loop.V, C, data>>)
             IN  [kind |-> "ok", V |-> loop.V, c |-> c,
                  r |-> Responses(loop.randomness, tn, hashed_attributes, c),
                  randomness |-> loop.randomness]

\* Client.create_zkp, for the values rnd that o.random() returns
create_zkp(pk, tn, attributes, hashed_attributes, C, data, rnd) ==
    LET loop == ZkpLoop(pk, attributes, rnd, 1, <<rnd[1]>>, Mul(pk.g1, rnd[1]))
    IN  IF loop.kind # "ok" THEN loop
        ELSE LET c == to_challenge(<<C, loop.V, data>>)
             IN  [kind |-> "ok", V |-> loop.V, c |-> c,
                  r |-> Responses(loop.randomness, tn, hashed_attributes, c),
                  randomness |-> loop.randomness]

\* request_attributes that blanks the plain attributes instead of the hidden ones
request_attributes_swapped(attributes) ==
    [i \in 1 .. Len(attributes) |->
        IF attributes[i][2] THEN attributes[i][1] ELSE Placeholder]

\* the attribute list of the request
request_attributes(attributes) ==
    [i \in 1 .. Len(attributes) |->
        IF attributes[i][2] THEN Placeholder ELSE attributes[i][1]]

NoLocals == [V |-> 0, randomness |-> <<>>, hashed_attributes |-> <<>>, t |-> 0]

\* Client.request_id when o.random() returns tn and then the values of rnd:
\* what it returns or raises (ret) and, when it returns, the locals the proof
\* was made of (local)
request_call(pk, attributes, data, tn, rnd) ==
    LET hashed_attributes == hash_hidden_attributes(attributes)
        com == create_commitment(pk, tn, hashed_attributes, attributes)
    IN  IF com.kind # "ok" THEN [ret |-> com, local |-> NoLocals]
        ELSE LET zkp == create_zkp(pk, tn, attributes, hashed_attributes,
                                   com.C, data, rnd)
             IN  IF zkp.kind # "ok" THEN [ret |-> zkp, local |-> NoLocals]
                 ELSE [ret |-> [kind |-> "Request", C |-> com.C, c |-> zkp.c,
                                r |-> zkp.r,
                                attributes |-> request_attributes(attributes)],
                       local |-> [V |-> zkp.V, randomness |-> zkp.randomness,
                                  hashed_attributes |-> hashed_attributes,
                                  t |-> tn]]

\* what Client.request_id returns or raises
request_id(pk, attributes, data, tn, rnd) ==
    request_call(pk, attributes, data, tn, rnd).ret

\* RequestId that stores another random scalar than the one it commits to
RequestIdStoresOtherT(attributes, data, tn, rnd) ==
    LET call == request_call(idp_pk, attributes, data, tn, rnd)
    IN  /\ \E other \in Scalars \ {tn} : t' = <<other>>
        /\ args' = [op |-> "request_id", attributes |-> attributes, data |-> data]
        /\ ret' = call.ret
        /\ local' = call.local
        /\ overtaken' = TRUE
        /\ UNCHANGED <<idp_pk, sig_prime>>

\* a call of Client.request_id; self.__t is assigned before anything can raise
RequestId(attributes, data, tn, rnd) ==
    LET call == request_call(idp_pk, attributes, data, tn, rnd)
    IN  /\ t' = <<tn>>
        /\ args' = [op |-> "request_id", attributes |-> attributes, data |-> data]
        /\ ret' = call.ret
        /\ local' = call.local
        /\ overtaken' = TRUE
        /\ UNCHANGED <<idp_pk, sig_prime>>

----------------------------------------------------------------------------
(* The issuer: it checks the proof of the request and signs it blindly *)

\* the hidden positions as the issuer sees them: those that carry the placeholder
PlaceholderPositions(request) ==
    SelectSeq([i \in 1 .. Len(request.attributes) |-> i],
              LAMBDA i : request.attributes[i] = Placeholder)

\* V' = g1^r[0] * prod_k Yg1[i_k]^r[k] * C^c, with i_k the k-th hidden position
RECURSIVE RecomputeV(_, _, _, _, _)
RecomputeV(pk, request, hp, k, V) ==
    IF k > Len(hp) THEN V
    ELSE RecomputeV(pk, request, hp, k + 1,
                    Add(V, Mul(pk.Yg1[hp[k]], request.r[k + 1])))

issuer_V(pk, request) ==
    RecomputeV(pk, request, PlaceholderPositions(request), 1,
               Add(Mul(pk.g1, request.r[1]), Mul(request.C, request.c)))

\* the issuer accepts the proof iff the lengths fit and Hash(C, V', data) = c
issuer_accepts(pk, request, data) ==
    /\ Len(request.attributes) <= Len(pk.Yg1)
    /\ Len(request.r) = 1 + Len(PlaceholderPositions(request))
    /\ to_challenge(<<request.C, issuer_V(pk, request), data>>) = request.c

\* the exponent the issuer raises g1^u to: x, the commitment and every plain
\* attribute's y_i * hash(attribute_i)
RECURSIVE SignedExponent(_, _, _, _)
SignedExponent(pk, request, i, acc) ==
    IF i > Len(request.attributes) THEN acc
    ELSE IF request.attributes[i] = Placeholder
         THEN SignedExponent(pk, request, i + 1, acc)
         ELSE SignedExponent(pk, request, i + 1,
                 Add(acc, Mul(pk.Yg1[i], Sha256Bn(request.attributes[i]))))

\* the blinded signature (g1^u, (g1^x * C * prod_plain Yg1[i]^h_i)^u); the
\* discrete logarithm of g1^x is that of X
blind_sign(pk, request, u) ==
    <<Mul(pk.g1, u), Mul(SignedExponent(pk, request, 1, Add(pk.X, request.C)), u)>>

NoSig == [kind |-> "none"]
NoRequest == [kind |-> "none"]

\* the issuer answers the request the client has just built
IssuerSign(u) ==
    /\ args.op = "request_id"
    /\ ret.kind = "Request"
    /\ issuer_accepts(idp_pk, ret, args.data)
    /\ sig_prime' = [kind |-> "blinded", sig |-> blind_sign(idp_pk, ret, u),
                     answers |-> [kind |-> "request", t |-> local.t,
                                  attributes |-> args.attributes]]
    /\ overtaken' = FALSE
    /\ UNCHANGED <<idp_pk, t, args, ret, local>>

----------------------------------------------------------------------------
(* Client.unbind_sig and Client.verify *)

\* unbind_sig with the blinding term added instead of removed
unbind_sig_adds(tt, sig_in) ==
    IF tt = None THEN [kind |-> "TypeError"]
    ELSE [kind |-> "Signature",
          sig |-> <<sig_in[1], Add(sig_in[2], Mul(sig_in[1], tt[1]))>>]

\* Client.unbind_sig: there is no check of self.__t, and sig1 * None raises the
\* group library's TypeError
unbind_sig(tt, sig_in) ==
    IF tt = None THEN [kind |-> "TypeError"]
    ELSE [kind |-> "Signature",
          sig |-> <<sig_in[1], Sub(sig_in[2], Mul(sig_in[1], tt[1]))>>]

\* UnbindSig that consumes the stored t
UnbindSigConsumes(sig_in, answers, latest) ==
    /\ args' = [op |-> "unbind_sig", sig_prime |-> sig_in, answers |-> answers,
                latest |-> latest,
                again |-> args.op = "unbind_sig" /\ ret.kind = "Signature"]
    /\ ret' = unbind_sig(t, sig_in)
    /\ local' = NoLocals
    /\ t' = None
    /\ UNCHANGED <<idp_pk, sig_prime, overtaken>>

\* a call of Client.unbind_sig on sig_in, which answers the request `answers`
\* (the last one the client made iff latest); again records that the call
\* before it was an unbind_sig that returned a signature
UnbindSig(sig_in, answers, latest) ==
    /\ args' = [op |-> "unbind_sig", sig_prime |-> sig_in, answers |-> answers,
                latest |-> latest,
                again |-> args.op = "unbind_sig" /\ ret.kind = "Signature"]
    /\ ret' = unbind_sig(t, sig_in)
    /\ local' = NoLocals
    /\ UNCHANGED <<idp_pk, t, sig_prime, overtaken>>

\* attribute_hash of Client.verify
attribute_hash(attribute) == Sha256Bn(attribute[1])

\* the loop of Client.verify from position i (1-based) on
RECURSIVE VerifyLoop(_, _, _, _)
VerifyLoop(pk, attributes, i, verification_result) ==
    IF i > Len(attributes) THEN [kind |-> "ok", Z |-> verification_result]
    ELSE IF i > Len(pk.Yg2) THEN [kind |-> "IndexError", where |-> "verify"]
    ELSE VerifyLoop(pk, attributes, i + 1,
            Add(verification_result, Mul(pk.Yg2[i], attribute_hash(attributes[i]))))

\* Client.verify
verify(pk, sig, attributes) ==
    LET loop == VerifyLoop(pk, attributes, 1, pk.X)
    IN  IF loop.kind # "ok" THEN loop
        ELSE [kind |-> "bool", value |-> (e(sig[1], loop.Z) = e(sig[2], pk.g2))]

\* Verify that drops the stored t
VerifyDropsT(sig, attributes) ==
    /\ args' = [op |-> "verify", sig |-> sig, attributes |-> attributes,
                round_trip |-> /\ args.op = "unbind_sig"
                               /\ ret.kind = "Signature"
                               /\ ret.sig = sig
                               /\ args.answers.kind = "request"
                               /\ args.latest
                               /\ args.answers.attributes = attributes]
    /\ ret' = verify(idp_pk, sig, attributes)
    /\ local' = NoLocals
    /\ t' = None
    /\ UNCHANGED <<idp_pk, sig_prime, overtaken>>

\* a call of Client.verify.  round_trip records that sig is what unbind_sig has
\* just returned for a signature answering the last request of the client, and
\* that the request was for these attributes.
Verify(sig, attributes) ==
    /\ args' = [op |-> "verify", sig |-> sig, attributes |-> attributes,
                round_trip |-> /\ args.op = "unbind_sig"
                               /\ ret.kind = "Signature"
                               /\ ret.sig = sig
                               /\ args.answers.kind = "request"
                               /\ args.latest
                               /\ args.answers.attributes = attributes]
    /\ ret' = verify(idp_pk, sig, attributes)
    /\ local' = NoLocals
    /\ UNCHANGED <<idp_pk, t, sig_prime, overtaken>>

----------------------------------------------------------------------------
(* Specifications *)

\* Client.__init__
Init ==
    /\ idp_pk \in PubKeys
    /\ t = None
    /\ args = [op |-> "init"]
    /\ ret = [kind |-> "None"]
    /\ local = NoLocals
    /\ sig_prime = NoSig
    /\ overtaken = FALSE

G1 == Scalars

\* the runs of the protocol are about one holder, whose attribute at each
\* position has one value, under one key and in one context; the holder chooses
\* which attributes to hide
RunKey == PubKey([x |-> 2, y |-> <<1, 2>>])
RunProfile == <<"alice", "bob">>
RunVectors ==
    {v \in [1 .. Len(RunProfile) -> RawValues \X BOOLEAN] :
        \A i \in 1 .. Len(v) : v[i][1] = RunProfile[i]}
RunData == {0}

InitRun == Init /\ idp_pk = RunKey

RunRequestId ==
    \E attributes \in RunVectors, data \in RunData, tn \in Scalars :
        \E rnd \in [1 .. 1 + NumHidden(attributes) -> Scalars] :
            RequestId(attributes, data, tn, rnd)

RunIssuerSign == \E u \in Scalars \ {0} : IssuerSign(u)

\* the client unblinds the signature the issuer sent
RunUnbindSig ==
    /\ sig_prime.kind = "blinded"
    /\ UnbindSig(sig_prime.sig, sig_prime.answers, ~overtaken)

\* the client unblinds a signature that answers no request of its own
RunUnbindAny == \E sig_in \in G1 \X G1 : UnbindSig(sig_in, NoRequest, FALSE)

\* the client verifies the signature it has just unblinded against the
\* attributes it asked the signature for
RunVerify ==
    /\ args.op = "unbind_sig"
    /\ ret.kind = "Signature"
    /\ args.answers.kind = "request"
    /\ Verify(ret.sig, args.answers.attributes)

\* the client verifies some signature for the holder's attributes, at any time
RunVerifyAny ==
    \E sig \in G1 \X G1 :
        Verify(sig, [i \in 1 .. Len(RunProfile) |-> <<RunProfile[i], FALSE>>])

Next ==
    \/ RunRequestId
    \/ RunIssuerSign
    \/ RunUnbindSig
    \/ RunUnbindAny
    \/ RunVerify
    \/ RunVerifyAny

\* runs of the protocol on one client
Spec == InitRun /\ [][Next]_vars

\* one call on a fresh client, with every input
CallRequestId ==
    /\ args.op = "init"
    /\ \E attributes \in AttrVectors(MaxAttrs), data \in Data, tn \in Scalars :
        \E rnd \in [1 .. 1 + NumHidden(attributes) -> Scalars] :
            RequestId(attributes, data, tn, rnd)

CallUnbindSig ==
    /\ args.op = "init"
    /\ \E sig_in \in G1 \X G1 : UnbindSig(sig_in, NoRequest, FALSE)

CallVerify ==
    /\ args.op = "init"
    /\ \E sig \in G1 \X G1, attributes \in AttrVectors(MaxAttrs) :
        Verify(sig, attributes)

NextCall == CallRequestId \/ CallUnbindSig \/ CallVerify

SpecCall == Init /\ [][NextCall]_vars

----------------------------------------------------------------------------
(* The claims *)

IsCall(op) == args.op = op

Returned(kind) == ret.kind = kind

\* the sum over the hidden positions hp[k..] of Yg1[hp[k]] * scalars[k + 1]
RECURSIVE HiddenSum(_, _, _, _)
HiddenSum(pk, hp, scalars, k) ==
    IF k > Len(hp) THEN 0
    ELSE Add(Mul(pk.Yg1[hp[k]], scalars[k + 1]), HiddenSum(pk, hp, scalars, k + 1))

\* the issuer's check of the proof succeeds on the request just returned
ProofAccepted ==
    /\ issuer_V(idp_pk, ret) = local.V
    /\ to_challenge(<<ret.C, issuer_V(idp_pk, ret), args.data>>) = ret.c
    /\ issuer_accepts(idp_pk, ret, args.data)

\* C1: round trip.  For every attribute vector that is not longer than the
\* key's generator arrays, request_id returns a request, the issuer accepts and
\* signs it, and verify returns true for the unblinded signature and the full
\* attribute vector.
C1_RoundTrip ==
    /\ (IsCall("request_id") /\ Len(args.attributes) <= Len(idp_pk.Yg1))
          => (Returned("Request") /\ ProofAccepted)
    /\ (IsCall("verify") /\ args.round_trip)
          => ret = [kind |-> "bool", value |-> TRUE]

\* the part of C1 the code keeps: the round trips that get as far as verify
RoundTripVerifies ==
    (IsCall("verify") /\ args.round_trip) => ret = [kind |-> "bool", value |-> TRUE]

RoundTripReached ==
    /\ IsCall("verify") /\ args.round_trip
    /\ NumHidden(args.attributes) = 1 /\ Len(args.attributes) = 2

\* C2: NIZK completeness.  For every attribute vector and every placement of the
\* hidden attributes create_zkp returns, V pairs the k-th hidden attribute's
\* generator Yg1[i] with the k-th proof random, and the issuer's V' equals V, so
\* that the challenge the issuer derives is c.
C2_NizkCompleteness ==
    (IsCall("request_id") /\ Len(args.attributes) <= Len(idp_pk.Yg1))
       => /\ Returned("Request")
          /\ local.V = Add(Mul(idp_pk.g1, local.randomness[1]),
                           HiddenSum(idp_pk, HiddenPositions(args.attributes),
                                     local.randomness, 1))
          /\ ProofAccepted

\* the part of C2 the code keeps: the proofs of the requests it returns
ReturnedProofAccepted ==
    (IsCall("request_id") /\ Returned("Request")
        /\ Len(args.attributes) <= Len(idp_pk.Yg1)) => ProofAccepted

\* the signature unbind_sig was given answers a request of this client
AnswersRequest == IsCall("unbind_sig") /\ args.answers.kind = "request"

\* unbind_sig removed the blinding term of the request the signature answers
UnblindedWithRequestT ==
    ret = [kind |-> "Signature",
           sig |-> <<args.sig_prime[1],
                     Sub(args.sig_prime[2],
                         Mul(args.sig_prime[1], args.answers.t))>>]

\* C3 as claimed: whatever the sequence of calls, unbind_sig applies to a
\* blinded signature the t of the request_id call whose request it answers.
C3_MatchingT == AnswersRequest => UnblindedWithRequestT

\* C3 as amended: unbind_sig applies the t of the last request_id call of the
\* client, so it applies the t of the request the signature answers when no
\* other request_id call was made since that request; until then the stored t
\* is the one that request generated.
C3_MatchingTOfLastRequest ==
    /\ (AnswersRequest /\ args.latest) => UnblindedWithRequestT
    /\ (sig_prime.kind = "blinded" /\ ~overtaken) => t = <<sig_prime.answers.t>>

C3_Witness ==
    /\ AnswersRequest /\ args.latest
    /\ Returned("Signature")
    /\ NumHidden(args.answers.attributes) > 0

\* C4: unbind_sig on a client whose t is absent raises a StateError.
C4_StateError ==
    (IsCall("unbind_sig") /\ t = None) => Returned("StateError")

\* what the code does there: it raises, but the group library's error
UnbindWithoutTRaises ==
    (IsCall("unbind_sig") /\ t = None) => Returned("TypeError")

\* C5: verify returns false for every signature whose sig1 is the identity of
\* G1 (the element of logarithm 0).
C5_IdentitySig1Rejected ==
    (IsCall("verify") /\ Returned("bool") /\ args.sig[1] = 0) => ~ret.value

\* the attribute vectors that differ from attributes in the raw value of one
\* position, to a value of another hashed scalar
OneAttributeChanged(attributes) ==
    {[attributes EXCEPT ![i] = <<v, attributes[i][2]>>] :
        <<i, v>> \in {iv \in (1 .. Len(attributes)) \X RawValues :
                        Sha256Bn(iv[2]) # Sha256Bn(attributes[iv[1]][1])}}

\* the aggregated element Z of the last verify call
VerifiedZ == VerifyLoop(idp_pk, args.attributes, 1, idp_pk.X).Z

Rejects(sig, attributes) ==
    verify(idp_pk, sig, attributes) = [kind |-> "bool", value |-> FALSE]

\* C6: tamper detection.  When verify accepts a signature for an attribute
\* vector, it rejects after a change of sig1 alone, of sig2 alone, or of one
\* attribute value alone.  (Stated for the vectors whose aggregated element Z
\* is not the identity: Z is the identity for a fraction 1/o of the vectors,
\* which is 1/3 in this model and negligible for the group of the code.)
C6_TamperDetection ==
    (IsCall("verify") /\ ret = [kind |-> "bool", value |-> TRUE] /\ VerifiedZ # 0)
       => /\ \A s \in G1 \ {args.sig[1]} : Rejects(<<s, args.sig[2]>>, args.attributes)
          /\ \A s \in G1 \ {args.sig[2]} : Rejects(<<args.sig[1], s>>, args.attributes)
          /\ \A a \in OneAttributeChanged(args.attributes) : Rejects(args.sig, a)

\* the same, for the signatures whose sig1 is not the identity
TamperDetectionNonIdentity ==
    (IsCall("verify") /\ ret = [kind |-> "bool", value |-> TRUE] /\ VerifiedZ # 0
        /\ args.sig[1] # 0)
       => /\ \A s \in G1 \ {args.sig[1]} : Rejects(<<s, args.sig[2]>>, args.attributes)
          /\ \A s \in G1 \ {args.sig[2]} : Rejects(<<args.sig[1], s>>, args.attributes)
          /\ \A a \in OneAttributeChanged(args.attributes) : Rejects(args.sig, a)

\* every request (or error) request_id can produce for these inputs, over the
\* choices of t and of the proof randoms
RequestSet(pk, attributes, data) ==
    {request_id(pk, attributes, data, tn, rnd) :
        <<tn, rnd>> \in Scalars \X [1 .. 1 + NumHidden(attributes) -> Scalars]}

\* the vectors with the same hidden/plain partition and the same plain values
SamePublicPart(attributes) ==
    {a \in [1 .. Len(attributes) -> RawValues \X BOOLEAN] :
        \A i \in 1 .. Len(attributes) :
            /\ a[i][2] = attributes[i][2]
            /\ ~attributes[i][2] => a[i][1] = attributes[i][1]}

\* C7: zero knowledge, possibilistic.  The set of requests request_id can return
\* is the same for any two values of the hidden attributes.
C7_RequestSetIndependent ==
    IsCall("request_id") =>
        \A a \in SamePublicPart(args.attributes) :
            RequestSet(idp_pk, a, args.data)
                = RequestSet(idp_pk, args.attributes, args.data)

\* C8: the attribute list of a returned request has the length and order of the
\* input; a hidden position carries the placeholder and not the raw value, a
\* plain position carries the raw value.
C8_RequestAttributes ==
    (IsCall("request_id") /\ Returned("Request")) =>
        /\ Len(ret.attributes) = Len(args.attributes)
        /\ \A i \in 1 .. Len(args.attributes) :
              IF args.attributes[i][2]
              THEN /\ ret.attributes[i] = Placeholder
                   /\ ret.attributes[i] # args.attributes[i][1]
              ELSE ret.attributes[i] = args.attributes[i][1]

C8_Witness ==
    /\ IsCall("request_id") /\ Returned("Request")
    /\ args.attributes = <<<<"alice", TRUE>>, <<"bob", FALSE>>>>

\* C9: a returned request carries 1 + (number of hidden attributes) responses:
\* r[0] answers for t with the first random, r[k] answers for the k-th hidden
\* attribute, in the order of the vector, with the random that V pairs with
\* that attribute's generator.
C9_ResponseVector ==
    (IsCall("request_id") /\ Returned("Request")) =>
        LET hp == HiddenPositions(args.attributes)
        IN  /\ Len(ret.r) = 1 + Len(hp)
            /\ Len(local.randomness) = 1 + Len(hp)
            /\ ret.r[1] = local.randomness[1] - local.t * ret.c
            /\ \A k \in 1 .. Len(hp) :
                  ret.r[k + 1] = local.randomness[k + 1]
                                   - Sha256Bn(args.attributes[hp[k]][1]) * ret.c
            /\ local.V = Add(Mul(idp_pk.g1, local.randomness[1]),
                             HiddenSum(idp_pk, hp, local.randomness, 1))

C9_Witness ==
    /\ IsCall("request_id") /\ Returned("Request")
    /\ NumHidden(args.attributes) = 2
    /\ ret.c # 0
    /\ local.randomness[2] # local.randomness[1]

\* C10: an attribute vector longer than the key's generator arrays is rejected
\* with an error: by request_id, which then leaves t as it was (absent, on a
\* fresh client), and by verify.
C10_TooLongRejected ==
    /\ (IsCall("request_id") /\ Len(args.attributes) > Len(idp_pk.Yg1))
          => (~Returned("Request") /\ t = None)
    /\ (IsCall("verify") /\ Len(args.attributes) > Len(idp_pk.Yg2))
          => ~Returned("bool")

\* what the code does for them: verify raises, request_id raises only for a
\* hidden attribute beyond the arrays, and has stored a new t by then
TooLongAsCoded ==
    /\ (IsCall("verify") /\ Len(args.attributes) > Len(idp_pk.Yg2))
          => Returned("IndexError")
    /\ (IsCall("request_id") /\ Len(args.attributes) > Len(idp_pk.Yg1))
          => /\ t # None
             /\ Returned("IndexError") <=>
                   \E i \in 1 .. Len(args.attributes) :
                       /\ args.attributes[i][2]
                       /\ \/ i > Len(idp_pk.Yg1)
                          \/ \E h \in 1 .. i - 1 : ~args.attributes[h][2]

\* C11: challenge binding.  The challenge of a returned request is the hash of
\* (export of C, export of V, data) in this order, for the C of the request and
\* the V of the proof, whatever t, the randoms and the attributes are; with the
\* same C and V any other context data gives another challenge.
C11_ChallengeBinding ==
    (IsCall("request_id") /\ Returned("Request")) =>
        /\ ret.c = to_challenge(<<ret.C, local.V, args.data>>)
        /\ \A data \in Data \ {args.data} :
              to_challenge(<<ret.C, local.V, data>>) # ret.c

C11_Witness ==
    /\ IsCall("request_id") /\ Returned("Request")
    /\ NumHidden(args.attributes) = 1
    /\ ret.C # local.V
    /\ args.data = 1

\* the signature unbind_sig returned is the one it was given with the stored t
\* removed, and the t is still stored
UnblindedWithStoredT ==
    /\ t # None
    /\ ret = [kind |-> "Signature",
              sig |-> <<args.sig_prime[1],
                        Sub(args.sig_prime[2], Mul(args.sig_prime[1], t[1]))>>]

\* C12 as claimed: a client starts without t, request_id stores t, and
\* unbind_sig consumes it: after unbind_sig no t is stored, and an unbind_sig
\* that follows an unbind_sig returns no signature.
C12_UnbindConsumesT ==
    /\ IsCall("init") => t = None
    /\ (IsCall("request_id") /\ Returned("Request")) => t = <<local.t>>
    /\ (IsCall("unbind_sig") /\ Returned("Signature")) => t = None
    /\ (IsCall("unbind_sig") /\ args.again) => ~Returned("Signature")

\* C12 as amended: a client starts without t, request_id stores t, and
\* unbind_sig uses the stored t and leaves it stored, so that an unbind_sig that
\* follows an unbind_sig applies the same t again.
C12_UnbindKeepsT ==
    /\ IsCall("init") => t = None
    /\ (IsCall("request_id") /\ Returned("Request")) => t = <<local.t>>
    /\ IsCall("unbind_sig") => (t = None <=> Returned("TypeError"))
    /\ (IsCall("unbind_sig") /\ t # None) => UnblindedWithStoredT
    /\ (IsCall("unbind_sig") /\ args.again) => UnblindedWithStoredT

C12_Witness ==
    /\ IsCall("unbind_sig") /\ args.again
    /\ Returned("Signature")
    /\ args.sig_prime[1] # 0
    /\ AnswersRequest

\* a step that is a call of verify
VerifyStep == args'.op = "verify" /\ <<args, ret>>' # <<args, ret>>

\* C13: verify neither reads nor changes the stored t, nor the key: a call of
\* verify leaves the client as it was, and its result is the same function of
\* (key, sig, attributes) whether t is absent, awaits a signature or was used.
C13_VerifyFrame ==
    /\ [](IsCall("verify") => ret = verify(idp_pk, args.sig, args.attributes))
    /\ [][VerifyStep => (t' = t /\ idp_pk' = idp_pk /\ sig_prime' = sig_prime)]_vars

\* verify was called, and accepted, while the client awaits a signature
C13_Witness ==
    /\ IsCall("verify") /\ ret = [kind |-> "bool", value |-> TRUE]
    /\ t # None
    /\ sig_prime.kind = "none"

\* C14: hash consistency.  The scalar request_id uses for a hidden attribute,
\* which its responses are computed with, is the scalar verify computes for the
\* same raw bytes.
C14_HashConsistency ==
    (IsCall("request_id") /\ Returned("Request")) =>
        LET hp == HiddenPositions(args.attributes)
        IN  /\ Len(local.hashed_attributes) = Len(hp)
            /\ \A k \in 1 .. Len(hp) :
                  /\ local.hashed_attributes[k] = attribute_hash(args.attributes[hp[k]])
                  /\ ret.r[k + 1] = local.randomness[k + 1]
                        - attribute_hash(args.attributes[hp[k]]) * ret.c

C14_Witness ==
    /\ IsCall("request_id") /\ Returned("Request")
    /\ args.attributes = <<<<"alice", TRUE>>, <<"bob", TRUE>>>>
    /\ ret.c = 1

\* g1^tn * prod over the hidden positions i of Yg1[i]^h_j, h_j the hash of the
\* j-th hidden attribute
ExpectedCommitment(pk, tn, attributes) ==
    LET hp == HiddenPositions(attributes)
    IN  Add(Mul(pk.g1, tn),
            HiddenSum(pk, hp,
                      [k \in 1 .. 1 + Len(hp) |->
                          IF k = 1 THEN 0 ELSE Sha256Bn(attributes[hp[k - 1]][1])],
                      1))

\* C15: the commitment request_id builds for the t it stores is g1^t times the
\* product, over the hidden positions i only, of Yg1[i]^h_j (g1^t alone when
\* nothing is hidden), for every placement of the hidden attributes the key
\* has generators for; it is the C of the request when one is returned.
C15_Commitment ==
    (IsCall("request_id") /\ Len(args.attributes) <= Len(idp_pk.Yg1)) =>
        LET com == create_commitment(idp_pk, t[1],
                        hash_hidden_attributes(args.attributes), args.attributes)
            expected == ExpectedCommitment(idp_pk, t[1], args.attributes)
        IN  /\ com = [kind |-> "ok", C |-> expected]
            /\ NumHidden(args.attributes) = 0 => com.C = Mul(idp_pk.g1, t[1])
            /\ Returned("Request") => ret.C = expected

C15_Witness ==
    /\ IsCall("request_id") /\ Returned("Request")
    /\ args.attributes = <<<<"alice", TRUE>>, <<"bob", FALSE>>>>
    /\ ret.C # Mul(idp_pk.g1, local.t)

\* C16: every response of a returned request is reduced modulo o:
\* r[0] = (random_0 - t*c) mod o and r[k] = (random_k - hash_k*c) mod o, so
\* that each lies in [0, o).
C16_ResponsesReduced ==
    (IsCall("request_id") /\ Returned("Request")) =>
        /\ ret.r[1] = (local.randomness[1] - local.t * ret.c) % o
        /\ \A k \in 1 .. Len(local.hashed_attributes) :
              ret.r[k + 1] =
                  (local.randomness[k + 1] - local.hashed_attributes[k] * ret.c) % o
        /\ \A k \in 1 .. Len(ret.r) : ret.r[k] \in 0 .. (o - 1)

\* what the code returns: the differences as integers, which are congruent to
\* the reduced responses and may be negative
ResponsesUnreduced ==
    (IsCall("request_id") /\ Returned("Request")) =>
        /\ ret.r[1] = local.randomness[1] - local.t * ret.c
        /\ \A k \in 1 .. Len(local.hashed_attributes) :
              ret.r[k + 1] =
                  local.randomness[k + 1] - local.hashed_attributes[k] * ret.c

\* C17: the attribute hasher reduces the digest modulo o: every hashed scalar
\* request_id uses, and every one verify uses, lies in [0, o).
C17_HashInField ==
    /\ (IsCall("request_id") /\ Returned("Request")) =>
          \A k \in 1 .. Len(local.hashed_attributes) :
              local.hashed_attributes[k] \in 0 .. (o - 1)
    /\ (IsCall("verify") /\ Returned("bool")) =>
          \A i \in 1 .. Len(args.attributes) :
              attribute_hash(args.attributes[i]) \in 0 .. (o - 1)

\* the stored t is the scalar of the request just returned: the one in its
\* commitment and the one its first response was computed with
StoredTIsRequestT ==
    (IsCall("request_id") /\ Returned("Request")) =>
        /\ t = <<local.t>>
        /\ ret.C = ExpectedCommitment(idp_pk, t[1], args.attributes)
        /\ ret.r[1] = local.randomness[1] - t[1] * ret.c

\* and it still is after the calls that follow the request, as seen when the
\* issuer has answered the last request of the client
StoredTIsAnsweredT ==
    (sig_prime.kind = "blinded" /\ ~overtaken) => t = <<sig_prime.answers.t>>

\* C18: whenever the last request_id call returned a request, the stored t is
\* the blinding scalar of that request's C and r[0]; unbind_sig and verify
\* never change the stored t.
C18_StoredT ==
    /\ [](StoredTIsRequestT /\ StoredTIsAnsweredT)
    /\ [][args'.op \in {"unbind_sig", "verify"} => t' = t]_vars

C18_Witness ==
    /\ IsCall("verify") /\ args.round_trip
    /\ sig_prime.kind = "blinded" /\ ~overtaken
    /\ t = <<sig_prime.answers.t>>
    /\ NumHidden(args.attributes) > 0

====
